---- MODULE Spec2Model ----
(***************************************************************************)
(* run_usage (ingestion/src/metadata/cli/usage.py): the CLI entry point    *)
(* that loads a configuration file, creates a UsageWorkflow from it, runs  *)
(* it and turns its status into the outcome of the call.                   *)
(*                                                                         *)
(* One behaviour is one call of run_usage(config_path).  Every statement   *)
(* of the function is one action; a call of a collaborator                 *)
(* (load_config_file, UsageWorkflow.create, execute, stop, print_status,   *)
(* raise_from_status, WorkflowInitErrorHandler.print_init_error) is an     *)
(* action per way the call can end: it returns, or it raises.  What the    *)
(* collaborators return or raise is the environment's choice.              *)
(*                                                                         *)
(* Exceptions raised by the collaborators are instances of Exception, so   *)
(* the clause `except Exception` of line 42 matches all of them;           *)
(* asynchronous interrupts (KeyboardInterrupt) are outside the model.      *)
(***************************************************************************)
EXTENDS Naturals, Integers, Sequences, FiniteSets, TLC

\* ---------------------------------------------------------------- bounds

\* How many configuration paths the caller may pass.
NumPaths == 2
\* How many distinct configuration documents a file may parse to.
NumDocs == 2

Paths == 1..NumPaths
\* The documents load_config_file may return: mappings, none of them None.
Docs == 1..NumDocs

\* ------------------------------------------------------------- constants

\* Python's None, as the value of config_dict (documents are 1..NumDocs).
NoneVal == 0
\* The argument of sys.exit on the initialization-failure path.
InitFailureExitCode == 1
\* PipelineType.usage, the workflow kind handed to the init-error reporter.
PipelineTypeUsage == "usage"

\* ------------------------------------------------------------ exceptions

\* The error kinds of the interfaces run_usage consumes.
ExceptionKinds == {"ConfigError", "ValidationError", "ConstructionError", "UnexpectedError"}
\* The kind raise_from_status raises.
WorkflowFailed == "WorkflowFailed"

Exc(kind, raisedBy) == [kind |-> kind, raisedBy |-> raisedBy]
NoExc == Exc("None", "None")

\* The terminal status a workflow records while it executes.
Statuses == {"Success", "PartialFailure", "Failure"}

\* -------------------------------------------------------------- workflow

\* The name `workflow` before line 40 has bound it.
NoWorkflow == [bound |-> FALSE, config |-> NoneVal, state |-> "None", status |-> "Unsettled"]
\* The instance UsageWorkflow.create(config) returns.
NewWorkflow(config) == [bound |-> TRUE, config |-> config, state |-> "Constructed", status |-> "Unsettled"]
\* execute() settles the status.
Executed(w, status) == [w EXCEPT !.state = "Running", !.status = status]
\* stop() releases the instance's resources, from any state.
Stopped(w) == [w EXCEPT !.state = "Stopped"]
\* raise_from_status() raises exactly when the settled status is not Success.
RaisesFromStatus(w) == w.status # "Success"

\* ---------------------------------------------------------------- state

VARIABLES
    pc,           \* the statement run_usage executes next
    config_path,  \* the argument of run_usage
    config_dict,  \* the local config_dict (line 37, 39)
    workflow,     \* the local workflow (line 40)
    exc,          \* the exception bound by `except Exception as exc`
    events,       \* the calls made so far, in order, each with how it ended
    outcome       \* how the call of run_usage ended

vars == <<pc, config_path, config_dict, workflow, exc, events, outcome>>

\* One finished call: the callee, its argument (a path, a document or an exit
\* code), the document it returned, the exception it was handed or raised, the
\* workflow kind or status it was about, and whether it returned or raised.
Ev(op, arg, ret, e, tag, res) ==
    [op |-> op, arg |-> arg, ret |-> ret, exc |-> e, tag |-> tag, res |-> res]

Running == [kind |-> "none", code |-> -1, exc |-> NoExc]
Returned == [kind |-> "return", code |-> 0, exc |-> NoExc]
SystemExit(code) == [kind |-> "SystemExit", code |-> code, exc |-> NoExc]
Raised(e) == [kind |-> "raise", code |-> -1, exc |-> e]

\* def run_usage(config_path): config_dict = None
Init ==
    /\ pc = "load"
    /\ config_path \in Paths
    /\ config_dict = NoneVal
    /\ workflow = NoWorkflow
    /\ exc = NoExc
    /\ events = <<>>
    /\ outcome = Running

\* -------------------------------------------------------- exception flow

\* Mutant: the statement is not covered by the try block, so its exception
\* is not caught.
RaiseInTryNotCaught(e) ==
    /\ exc' = exc
    /\ pc' = "terminated"
    /\ outcome' = Raised(e)

\* An exception raised by a statement of the try block (lines 39-41) is bound
\* by `except Exception as exc` and the handler starts.
RaiseInTry(e) ==
    /\ exc' = e
    /\ pc' = "except"
    /\ outcome' = outcome

\* An exception raised by a statement outside the try block (the handler,
\* lines 43-45, and lines 47-50) leaves run_usage as it is.
RaiseOutsideTry(e) ==
    /\ exc' = exc
    /\ pc' = "terminated"
    /\ outcome' = Raised(e)

\* A statement that ends normally: control moves on to the next statement.
Goto(next) ==
    /\ exc' = exc
    /\ pc' = next
    /\ outcome' = outcome

\* ---------------------------------------------------------- the try block

\* Mutant: the document load_config_file returns is not kept in config_dict.
LoadReturnsDiscarded(d) ==
    /\ pc = "load"
    /\ config_dict' = config_dict
    /\ events' = Append(events, Ev("load_config_file", config_path, d, NoExc, "", "return"))
    /\ Goto("create")
    /\ UNCHANGED <<config_path, workflow>>

\* line 39: config_dict = load_config_file(config_path), the call returns d
LoadReturns(d) ==
    /\ pc = "load"
    /\ config_dict' = d
    /\ events' = Append(events, Ev("load_config_file", config_path, d, NoExc, "", "return"))
    /\ Goto("create")
    /\ UNCHANGED <<config_path, workflow>>

\* line 39: load_config_file raises; config_dict keeps the None of line 37
LoadRaises(k) ==
    /\ pc = "load"
    /\ events' = Append(events, Ev("load_config_file", config_path, NoneVal, Exc(k, "load_config_file"), "", "raise"))
    /\ RaiseInTry(Exc(k, "load_config_file"))
    /\ UNCHANGED <<config_path, config_dict, workflow>>

\* line 40: workflow = UsageWorkflow.create(config_dict), the call returns
CreateReturns ==
    /\ pc = "create"
    /\ workflow' = NewWorkflow(config_dict)
    /\ events' = Append(events, Ev("create", config_dict, NoneVal, NoExc, "", "return"))
    /\ Goto("debug")
    /\ UNCHANGED <<config_path, config_dict>>

\* line 40: UsageWorkflow.create raises; workflow stays unbound
CreateRaises(k) ==
    /\ pc = "create"
    /\ events' = Append(events, Ev("create", config_dict, NoneVal, Exc(k, "create"), "", "raise"))
    /\ RaiseInTry(Exc(k, "create"))
    /\ UNCHANGED <<config_path, config_dict, workflow>>

\* line 41: logger.debug(f"Using config: {workflow.config}")
DebugConfigReturns ==
    /\ pc = "debug"
    /\ events' = Append(events, Ev("debug_using_config", workflow.config, NoneVal, NoExc, "", "return"))
    /\ Goto("execute")
    /\ UNCHANGED <<config_path, config_dict, workflow>>

\* Mutant: line 41 sits after the try statement, so its exception is not
\* caught.
DebugConfigRaisesNotCaught(k) ==
    /\ pc = "debug"
    /\ events' = Append(events, Ev("debug_using_config", workflow.config, NoneVal, Exc(k, "debug_using_config"), "", "raise"))
    /\ exc' = exc
    /\ pc' = "terminated"
    /\ outcome' = Raised(Exc(k, "debug_using_config"))
    /\ UNCHANGED <<config_path, config_dict, workflow>>

\* line 41: reading or formatting workflow.config raises, inside the try block
DebugConfigRaises(k) ==
    /\ pc = "debug"
    /\ events' = Append(events, Ev("debug_using_config", workflow.config, NoneVal, Exc(k, "debug_using_config"), "", "raise"))
    /\ RaiseInTry(Exc(k, "debug_using_config"))
    /\ UNCHANGED <<config_path, config_dict, workflow>>

\* ------------------------------------------------------------ the handler

\* Mutant: line 43 is missing, the handler reports without logging the
\* traceback.
DebugTracebackOmitted ==
    /\ pc = "except"
    /\ Goto("report")
    /\ UNCHANGED <<config_path, config_dict, workflow, events>>

\* line 43: logger.debug(traceback.format_exc())
DebugTraceback ==
    /\ pc = "except"
    /\ events' = Append(events, Ev("debug_traceback", NoneVal, NoneVal, exc, "", "return"))
    /\ Goto("report")
    /\ UNCHANGED <<config_path, config_dict, workflow>>

\* Mutant: the third argument is left out, and the reporter falls back on its
\* default workflow kind.
PrintInitErrorDefaultKind ==
    /\ pc = "report"
    /\ events' = Append(events, Ev("print_init_error", config_dict, NoneVal, exc, "metadata", "return"))
    /\ Goto("exit")
    /\ UNCHANGED <<config_path, config_dict, workflow>>

\* line 44: WorkflowInitErrorHandler.print_init_error(exc, config_dict, PipelineType.usage)
PrintInitError ==
    /\ pc = "report"
    /\ events' = Append(events, Ev("print_init_error", config_dict, NoneVal, exc, PipelineTypeUsage, "return"))
    /\ Goto("exit")
    /\ UNCHANGED <<config_path, config_dict, workflow>>

\* Mutant: sys.exit() is called without its argument, which exits with the
\* success code.
SysExitDefaultCode ==
    /\ pc = "exit"
    /\ events' = Append(events, Ev("sys.exit", 0, NoneVal, NoExc, "", "raise"))
    /\ pc' = "terminated"
    /\ outcome' = SystemExit(0)
    /\ UNCHANGED <<config_path, config_dict, workflow, exc>>

\* line 45: sys.exit(1)
SysExit ==
    /\ pc = "exit"
    /\ events' = Append(events, Ev("sys.exit", InitFailureExitCode, NoneVal, NoExc, "", "raise"))
    /\ pc' = "terminated"
    /\ outcome' = SystemExit(InitFailureExitCode)
    /\ UNCHANGED <<config_path, config_dict, workflow, exc>>

\* ------------------------------------------------- after the try statement

\* Mutant: line 48 is skipped after execute() returns.
ExecuteReturnsSkipsStop(s) ==
    /\ pc = "execute"
    /\ workflow' = Executed(workflow, s)
    /\ events' = Append(events, Ev("execute", NoneVal, NoneVal, NoExc, s, "return"))
    /\ Goto("print_status")
    /\ UNCHANGED <<config_path, config_dict>>

\* line 47: workflow.execute() returns, the status settled to s
ExecuteReturns(s) ==
    /\ pc = "execute"
    /\ workflow' = Executed(workflow, s)
    /\ events' = Append(events, Ev("execute", NoneVal, NoneVal, NoExc, s, "return"))
    /\ Goto("stop")
    /\ UNCHANGED <<config_path, config_dict>>

\* Mutant: the exception of execute() is held back while the statements of
\* lines 48-50 still run.
ExecuteRaisesThenStop(k) ==
    /\ pc = "execute"
    /\ events' = Append(events, Ev("execute", NoneVal, NoneVal, Exc(k, "execute"), "", "raise"))
    /\ Goto("stop")
    /\ UNCHANGED <<config_path, config_dict, workflow>>

\* Mutant: the call of execute() sits inside the try block, so its exception
\* is caught by `except Exception` and handled as an initialization error.
ExecuteRaisesInTry(k) ==
    /\ pc = "execute"
    /\ events' = Append(events, Ev("execute", NoneVal, NoneVal, Exc(k, "execute"), "", "raise"))
    /\ RaiseInTry(Exc(k, "execute"))
    /\ UNCHANGED <<config_path, config_dict, workflow>>

\* line 47: workflow.execute() raises
ExecuteRaises(k) ==
    /\ pc = "execute"
    /\ events' = Append(events, Ev("execute", NoneVal, NoneVal, Exc(k, "execute"), "", "raise"))
    /\ RaiseOutsideTry(Exc(k, "execute"))
    /\ UNCHANGED <<config_path, config_dict, workflow>>

\* Mutant: stop() is called a second time right after the first call.
StopReturnsTwice ==
    /\ pc = "stop"
    /\ workflow' = Stopped(workflow)
    /\ events' = events \o << Ev("stop", NoneVal, NoneVal, NoExc, "", "return"),
                              Ev("stop", NoneVal, NoneVal, NoExc, "", "return") >>
    /\ Goto("print_status")
    /\ UNCHANGED <<config_path, config_dict>>

\* Mutant: line 48 is missing, stop() is not called.
StopNotCalled ==
    /\ pc = "stop"
    /\ Goto("print_status")
    /\ UNCHANGED <<config_path, config_dict, workflow, events>>

\* line 48: workflow.stop() returns
StopReturns ==
    /\ pc = "stop"
    /\ workflow' = Stopped(workflow)
    /\ events' = Append(events, Ev("stop", NoneVal, NoneVal, NoExc, "", "return"))
    /\ Goto("print_status")
    /\ UNCHANGED <<config_path, config_dict>>

\* line 49: workflow.print_status() returns
PrintStatusReturns ==
    /\ pc = "print_status"
    /\ events' = Append(events, Ev("print_status", NoneVal, NoneVal, NoExc, workflow.status, "return"))
    /\ Goto("raise_from_status")
    /\ UNCHANGED <<config_path, config_dict, workflow>>

\* Mutant: run_usage does not go on after raise_from_status() has returned: it
\* waits there for good.
RaiseFromStatusReturnsAndWaits ==
    /\ pc = "raise_from_status"
    /\ ~RaisesFromStatus(workflow)
    /\ UNCHANGED vars

\* line 50: workflow.raise_from_status() returns, and run_usage returns None
RaiseFromStatusReturns ==
    /\ pc = "raise_from_status"
    /\ ~RaisesFromStatus(workflow)
    /\ events' = Append(events, Ev("raise_from_status", NoneVal, NoneVal, NoExc, "", "return"))
    /\ exc' = exc
    /\ pc' = "terminated"
    /\ outcome' = Returned
    /\ UNCHANGED <<config_path, config_dict, workflow>>

\* Mutant: line 50 sits inside the try block, so WorkflowFailed is caught and
\* handled as an initialization error.
RaiseFromStatusRaisesCaught ==
    /\ pc = "raise_from_status"
    /\ RaisesFromStatus(workflow)
    /\ events' = Append(events, Ev("raise_from_status", NoneVal, NoneVal, Exc(WorkflowFailed, "raise_from_status"), "", "raise"))
    /\ RaiseInTry(Exc(WorkflowFailed, "raise_from_status"))
    /\ UNCHANGED <<config_path, config_dict, workflow>>

\* line 50: workflow.raise_from_status() raises WorkflowFailed
RaiseFromStatusRaises ==
    /\ pc = "raise_from_status"
    /\ RaisesFromStatus(workflow)
    /\ events' = Append(events, Ev("raise_from_status", NoneVal, NoneVal, Exc(WorkflowFailed, "raise_from_status"), "", "raise"))
    /\ RaiseOutsideTry(Exc(WorkflowFailed, "raise_from_status"))
    /\ UNCHANGED <<config_path, config_dict, workflow>>

\* ------------------------------------- collaborators that break their contract

\* line 44: print_init_error raises, inside the handler
PrintInitErrorRaises(k) ==
    /\ pc = "report"
    /\ events' = Append(events, Ev("print_init_error", config_dict, NoneVal, exc, PipelineTypeUsage, "raise"))
    /\ RaiseOutsideTry(Exc(k, "print_init_error"))
    /\ UNCHANGED <<config_path, config_dict, workflow>>

\* Mutant: the exception of stop() is swallowed and the status is reported
\* all the same.
StopRaisesSuppressed(k) ==
    /\ pc = "stop"
    /\ events' = Append(events, Ev("stop", NoneVal, NoneVal, Exc(k, "stop"), "", "raise"))
    /\ Goto("print_status")
    /\ UNCHANGED <<config_path, config_dict, workflow>>

\* line 48: workflow.stop() raises
StopRaises(k) ==
    /\ pc = "stop"
    /\ events' = Append(events, Ev("stop", NoneVal, NoneVal, Exc(k, "stop"), "", "raise"))
    /\ RaiseOutsideTry(Exc(k, "stop"))
    /\ UNCHANGED <<config_path, config_dict, workflow>>

\* line 49: workflow.print_status() raises
PrintStatusRaises(k) ==
    /\ pc = "print_status"
    /\ events' = Append(events, Ev("print_status", NoneVal, NoneVal, Exc(k, "print_status"), workflow.status, "raise"))
    /\ RaiseOutsideTry(Exc(k, "print_status"))
    /\ UNCHANGED <<config_path, config_dict, workflow>>

\* --------------------------------------------------------- specifications

\* run_usage with collaborators that keep their interface contracts: stop,
\* print_status and print_init_error return.
Next ==
    \/ \E d \in Docs : LoadReturns(d)
    \/ \E k \in ExceptionKinds : LoadRaises(k)
    \/ CreateReturns
    \/ \E k \in ExceptionKinds : CreateRaises(k)
    \/ DebugConfigReturns
    \/ \E k \in ExceptionKinds : DebugConfigRaises(k)
    \/ DebugTraceback
    \/ PrintInitError
    \/ SysExit
    \/ \E s \in Statuses : ExecuteReturns(s)
    \/ \E k \in ExceptionKinds : ExecuteRaises(k)
    \/ StopReturns
    \/ PrintStatusReturns
    \/ RaiseFromStatusReturns
    \/ RaiseFromStatusRaises

Spec == Init /\ [][Next]_vars

\* run_usage with collaborators of which any call may raise.
NextAny ==
    \/ Next
    \/ \E k \in ExceptionKinds : PrintInitErrorRaises(k)
    \/ \E k \in ExceptionKinds : StopRaises(k)
    \/ \E k \in ExceptionKinds : PrintStatusRaises(k)

SpecAny == Init /\ [][NextAny]_vars

\* Every call run_usage makes ends, by returning or by raising, and run_usage
\* then executes its next statement.
FairSpecAny == SpecAny /\ WF_vars(NextAny)

\* ------------------------------------------------- what a run has done

CallsOf(op) == {i \in DOMAIN events : events[i].op = op}
Called(op) == CallsOf(op) # {}
Ended(op, res) == \E i \in CallsOf(op) : events[i].res = res

LoadRaised == Ended("load_config_file", "raise")
LoadReturned == Ended("load_config_file", "return")
CreateRaised == Ended("create", "raise")
CreateReturned == Ended("create", "return")
ExecuteRaised == Ended("execute", "raise")
ExecuteReturned == Ended("execute", "return")
ExecuteReturnedWith(s) == \E i \in CallsOf("execute") : events[i].res = "return" /\ events[i].tag = s

Terminated == pc = "terminated"
\* The handler of lines 42-45 is running, or has ended the run with sys.exit(1).
OnInitFailurePath ==
    \/ pc \in {"except", "report", "exit"}
    \/ Terminated /\ outcome.kind = "SystemExit" /\ outcome.code = 1

\* The statements after the try statement, in the order of lines 48-50.
RuntimeSteps == <<"stop", "print_status", "raise_from_status">>
IsPrefix(s, t) == Len(s) <= Len(t) /\ \A j \in 1..Len(s) : s[j] = t[j]
\* The calls made after execute() ended, in order.
AfterExecute ==
    LET i == CHOOSE i \in CallsOf("execute") : TRUE
    IN  [j \in 1..(Len(events) - i) |-> events[i + j]]
OpsAfterExecute == [j \in DOMAIN AfterExecute |-> AfterExecute[j].op]

\* ------------------------------------------------------------------ C1

\* C1: in every run in which load_config_file raises, UsageWorkflow.create is
\* never called, no workflow instance is ever bound, the run is on the
\* handler's path, and when it has ended it has ended with sys.exit(1).
C1_LoadFailureExitsBeforeCreate ==
    LoadRaised =>
        /\ ~Called("create")
        /\ ~workflow.bound
        /\ OnInitFailurePath
        /\ Terminated => Called("sys.exit")

C1_Witness ==
    LoadRaised /\ Terminated /\ outcome.kind = "SystemExit"

\* ------------------------------------------------------------------ C2

\* C2: in every run in which load_config_file returns and UsageWorkflow.create
\* raises, execute() is never called, and once the reporter has been passed the
\* run has called print_init_error exactly once, with the exception create
\* raised and the workflow kind PipelineType.usage; the run ends with a
\* nonzero exit.
C2_CreateFailureReportedAsUsage ==
    (LoadReturned /\ CreateRaised) =>
        /\ ~Called("execute")
        /\ OnInitFailurePath
        /\ pc \in {"exit", "terminated"} =>
              /\ Cardinality(CallsOf("print_init_error")) = 1
              /\ \A i \in CallsOf("print_init_error") :
                    /\ events[i].tag = "usage"
                    /\ events[i].exc.raisedBy = "create"
                    /\ \E j \in CallsOf("create") : j < i /\ events[j].exc = events[i].exc
        /\ Terminated => outcome.code # 0

C2_Witness ==
    /\ LoadReturned /\ CreateRaised /\ Terminated
    /\ \E i \in CallsOf("print_init_error") : events[i].tag = "usage"

\* ------------------------------------------------------------------ C3

\* C3: once execute() has returned with status Success, the calls that follow
\* are stop(), print_status(), raise_from_status(), in this order, each at
\* most once and each returning; neither sys.exit nor the init-error reporter
\* is called; and the run ends by returning normally (exit code 0), after all
\* three calls.
C3_SuccessStopsPrintsReturns ==
    ExecuteReturnedWith("Success") =>
        /\ IsPrefix(OpsAfterExecute, RuntimeSteps)
        /\ \A j \in DOMAIN AfterExecute : AfterExecute[j].res = "return"
        /\ Cardinality(CallsOf("stop")) <= 1
        /\ pc \in {"print_status", "raise_from_status", "terminated"} =>
              Cardinality(CallsOf("stop")) = 1
        /\ ~Called("sys.exit")
        /\ ~Called("print_init_error")
        /\ Terminated =>
              /\ OpsAfterExecute = RuntimeSteps
              /\ outcome.kind = "return"
              /\ outcome.code = 0

C3_Witness ==
    /\ ExecuteReturnedWith("Success")
    /\ Terminated
    /\ Ended("raise_from_status", "return")

\* ------------------------------------------------------------------ C4

\* C4: once execute() has returned with status Failure, only stop(),
\* print_status() and raise_from_status() are called, in this order; a call of
\* raise_from_status() raises WorkflowFailed, comes right after a returned
\* stop() and a returned print_status(), and ends the run with that very
\* exception propagating; no traceback is logged, the init-error reporter and
\* sys.exit are not called; and a run that has ended has ended with an
\* uncaught exception.
C4_FailurePropagatesAfterStop ==
    ExecuteReturnedWith("Failure") =>
        /\ IsPrefix(OpsAfterExecute, RuntimeSteps)
        /\ ~Called("debug_traceback")
        /\ ~Called("print_init_error")
        /\ ~Called("sys.exit")
        /\ \A i \in CallsOf("raise_from_status") :
              /\ events[i].res = "raise"
              /\ events[i].exc.kind = "WorkflowFailed"
              /\ events[i - 2].op = "stop" /\ events[i - 2].res = "return"
              /\ events[i - 1].op = "print_status" /\ events[i - 1].res = "return"
              /\ i = Len(events)
              /\ Terminated
              /\ outcome.kind = "raise"
              /\ outcome.exc = events[i].exc
        /\ Terminated => outcome.kind = "raise"

C4_Witness ==
    /\ ExecuteReturnedWith("Failure")
    /\ Terminated
    /\ outcome.kind = "raise"
    /\ outcome.exc.kind = "WorkflowFailed"

\* ------------------------------------------------------------------ C5

\* C5: when execute() raises, the run ends there: the exception execute()
\* raised propagates out of run_usage as it is, no further call is made, and
\* neither the traceback log of the handler, nor print_init_error, nor
\* sys.exit is ever reached.
C5_ExecuteErrorNotAnInitError ==
    ExecuteRaised =>
        /\ Terminated
        /\ outcome.kind = "raise"
        /\ \A i \in CallsOf("execute") : i = Len(events) /\ outcome.exc = events[i].exc
        /\ ~Called("debug_traceback")
        /\ ~Called("print_init_error")
        /\ ~Called("sys.exit")

C5_Witness ==
    /\ ExecuteRaised
    /\ Terminated
    /\ outcome.exc.raisedBy = "execute"

\* ------------------------------------------------------------------ C6

\* C6: the initialization-error path (the handler of lines 42-45: traceback
\* log, print_init_error, sys.exit(1)) is taken only while no workflow
\* instance exists.
C6_InitPathOnlyWithoutInstance ==
    (pc \in {"except", "report", "exit"} \/ Called("print_init_error") \/ Called("sys.exit"))
        => ~workflow.bound

\* ------------------------------------------------------------------ C7

\* The handler's calls, in the order of lines 43-45.
HandlerSteps == <<"debug_traceback", "print_init_error", "sys.exit">>

\* C7: every exception raised by load_config_file or UsageWorkflow.create is
\* caught: what follows the raising call is the traceback log of that
\* exception, then one call of print_init_error with that exception, then
\* sys.exit(1), in this order and nothing else; the run ends with SystemExit(1)
\* and never with the exception propagating.
C7_InitErrorsCaughtLoggedReportedExit ==
    \A i \in CallsOf("load_config_file") \cup CallsOf("create") :
        events[i].res = "raise" =>
            /\ OnInitFailurePath
            /\ outcome.kind # "raise"
            /\ IsPrefix([j \in 1..(Len(events) - i) |-> events[i + j].op], HandlerSteps)
            /\ \A j \in (i + 1)..Len(events) :
                  events[j].op \in {"debug_traceback", "print_init_error"} =>
                      events[j].exc = events[i].exc /\ events[j].res = "return"
            /\ Cardinality(CallsOf("print_init_error")) <= 1
            /\ pc = "report" => Called("debug_traceback")
            /\ pc \in {"exit", "terminated"} => Cardinality(CallsOf("print_init_error")) = 1
            /\ Terminated => Len(events) = i + 3

C7_Witness ==
    /\ CreateRaised
    /\ Terminated
    /\ Called("debug_traceback")
    /\ Called("sys.exit")

\* ------------------------------------------------------------------ C8

\* C8 as stated: in every run in which execute() was called, stop() has been
\* called when the run has terminated.
C8_StopCalledWheneverExecuteCalled ==
    (Terminated /\ Called("execute")) => Called("stop")

\* C8, amended: in every run in which execute() returned, stop() is the next
\* call, made exactly once and before the run terminates; in a run in which
\* execute() raised, stop() is never called.
C8_StopCalledWhenExecuteReturns ==
    /\ ExecuteReturned =>
          /\ pc \in {"stop", "print_status", "raise_from_status", "terminated"}
          /\ pc # "stop" =>
                /\ Cardinality(CallsOf("stop")) = 1
                /\ \A i \in CallsOf("execute") : events[i + 1].op = "stop"
    /\ ExecuteRaised => ~Called("stop")

C8_Witness ==
    /\ ExecuteReturned
    /\ Terminated
    /\ Called("stop")

\* ------------------------------------------------------------------ C9

\* A statement of the try block (lines 39-41) raised.
FailedInTry ==
    \/ LoadRaised
    \/ CreateRaised
    \/ Ended("debug_using_config", "raise")

\* C9 as stated: in every run that has ended in a failure, whichever call
\* failed, a traceback has been logged at debug level.
C9_TracebackLoggedInEveryFailingRun ==
    (Terminated /\ outcome.kind # "return") => Called("debug_traceback")

\* C9, amended: a traceback is logged at debug level exactly in the runs in
\* which a statement of the try block raised; it is logged right after the
\* raising call, for the exception that call raised, and before the run ends.
\* A run that fails after the try statement ends without a traceback logged by
\* run_usage.
C9_TracebackLoggedExactlyForTryFailures ==
    /\ Called("debug_traceback") => FailedInTry
    /\ (FailedInTry /\ pc # "except") =>
          /\ Cardinality(CallsOf("debug_traceback")) = 1
          /\ \A i \in CallsOf("debug_traceback") :
                /\ events[i - 1].res = "raise"
                /\ events[i].exc = events[i - 1].exc
    /\ (Terminated /\ outcome.kind # "return") =>
          (Called("debug_traceback") <=> FailedInTry)

C9_Witness ==
    /\ Ended("debug_using_config", "raise")
    /\ Terminated
    /\ Called("debug_traceback")

\* ----------------------------------------------------------------- C10

\* C10: whenever print_init_error is called, the configuration it is handed is
\* None exactly when load_config_file raised, and otherwise it is the document
\* load_config_file returned.
C10_ReporterGetsLoadedConfigOrNone ==
    \A i \in CallsOf("print_init_error") :
        /\ (events[i].arg = 0) <=> LoadRaised
        /\ \A j \in CallsOf("load_config_file") :
              events[j].res = "return" => (j < i /\ events[i].arg = events[j].ret)
        /\ LoadRaised \/ LoadReturned

C10_Witness ==
    /\ CreateRaised
    /\ \E i \in CallsOf("print_init_error") : events[i].arg \in Docs

\* ----------------------------------------------------------------- C11

\* The collaborators run_usage calls in a run without failure, in the order
\* of lines 39, 40, 47, 48, 49, 50.
CollaboratorSteps ==
    <<"load_config_file", "create", "execute", "stop", "print_status", "raise_from_status">>
Collaborators == {CollaboratorSteps[n] : n \in DOMAIN CollaboratorSteps}

\* C11: in every run each of load_config_file, UsageWorkflow.create,
\* execute(), stop(), print_status() and raise_from_status() is called at most
\* once, and a run that has ended by returning normally has called each of
\* them exactly once, each call returning.
C11_EachCollaboratorAtMostOnce ==
    /\ \A op \in Collaborators : Cardinality(CallsOf(op)) <= 1
    /\ (Terminated /\ outcome.kind = "return") =>
          \A op \in Collaborators :
              /\ Cardinality(CallsOf(op)) = 1
              /\ Ended(op, "return")

C11_Witness ==
    /\ Terminated
    /\ outcome.kind = "return"
    /\ \A op \in Collaborators : Cardinality(CallsOf(op)) = 1

\* ----------------------------------------------------------------- C12

IsCollaboratorCall(e) == e.op \in Collaborators
\* The calls of the six collaborators made so far, in order.
CollaboratorCalls == SelectSeq(events, IsCollaboratorCall)

\* C12: in every run the calls of the collaborators are, in order, a prefix
\* of load_config_file, create, execute, stop, print_status,
\* raise_from_status, and every call but the last one made has returned
\* normally: a step is started only after all earlier steps have returned.
C12_CallsArePrefixOfLinearOrder ==
    /\ IsPrefix([j \in DOMAIN CollaboratorCalls |-> CollaboratorCalls[j].op], CollaboratorSteps)
    /\ \A j \in DOMAIN CollaboratorCalls :
          j < Len(CollaboratorCalls) => CollaboratorCalls[j].res = "return"

C12_Witness ==
    /\ Called("print_status")
    /\ Called("raise_from_status")
    /\ Len(CollaboratorCalls) = Len(CollaboratorSteps)

\* ----------------------------------------------------------------- C13

\* C13: sys.exit is called only as the last statement of the handler of lines
\* 42-45 (after a statement of the try block raised, the traceback was logged
\* and print_init_error returned) and always with the code 1; a run that ends
\* with SystemExit ends with the code 1; and a run in which execute() was
\* called never calls sys.exit and never ends with SystemExit.
C13_ExitOneOnlyOnInitFailurePath ==
    /\ \A i \in CallsOf("sys.exit") :
          /\ events[i].arg = 1
          /\ FailedInTry
          /\ i >= 3
          /\ events[i - 2].op = "debug_traceback"
          /\ events[i - 1].op = "print_init_error" /\ events[i - 1].res = "return"
          /\ i = Len(events)
    /\ outcome.kind = "SystemExit" =>
          /\ outcome.code = 1
          /\ Called("sys.exit")
    /\ Called("execute") =>
          /\ ~Called("sys.exit")
          /\ outcome.kind # "SystemExit"
          /\ pc \notin {"except", "report", "exit"}

C13_Witness ==
    /\ Terminated
    /\ outcome.kind = "SystemExit"
    /\ outcome.code = 1
    /\ ~Called("execute")

\* ----------------------------------------------------------------- C14

\* run_usage returned None: the caller exits with code 0.
EndedByReturn == outcome.kind = "return" /\ outcome.code = 0 /\ outcome.exc = NoExc
\* run_usage ended with the SystemExit(1) of line 45.
EndedByInitExit == outcome.kind = "SystemExit" /\ outcome.code = 1 /\ Called("sys.exit")
\* run_usage ended with an exception it did not catch.
EndedByException == outcome.kind = "raise" /\ outcome.exc # NoExc /\ ~Called("sys.exit")

ExactlyOneOutcome ==
    \/ EndedByReturn /\ ~EndedByInitExit /\ ~EndedByException
    \/ ~EndedByReturn /\ EndedByInitExit /\ ~EndedByException
    \/ ~EndedByReturn /\ ~EndedByInitExit /\ EndedByException

\* C14: when every call run_usage makes ends (returns or raises), every run
\* terminates, and stays terminated in exactly one of three outcomes: it
\* returned normally, it exited with sys.exit(1), or an exception propagated
\* out of it; before that run_usage always has a next statement to execute (no
\* waiting state), and it has no outcome before it has terminated.
C14_TerminatesInOneOfThreeOutcomes ==
    /\ <>[](Terminated /\ ExactlyOneOutcome)
    /\ [](Terminated \/ (ENABLED <<NextAny>>_vars /\ outcome.kind = "none"))

C14_Witness ==
    /\ Terminated
    /\ EndedByException
    /\ outcome.exc.raisedBy = "print_status"

\* ----------------------------------------------------------------- C15

\* C15: when stop() raises (after execute() has returned), the run ends
\* there: print_status() and raise_from_status() are never called, the
\* exception stop() raised propagates out of run_usage as it is, and neither
\* the traceback log of the handler, nor print_init_error, nor sys.exit is
\* reached.
C15_StopErrorSkipsStatusReport ==
    \A i \in CallsOf("stop") :
        events[i].res = "raise" =>
            /\ ExecuteReturned
            /\ events[i - 1].op = "execute"
            /\ i = Len(events)
            /\ ~Called("print_status")
            /\ ~Called("raise_from_status")
            /\ Terminated
            /\ outcome.kind = "raise"
            /\ outcome.exc = events[i].exc
            /\ ~Called("debug_traceback")
            /\ ~Called("print_init_error")
            /\ ~Called("sys.exit")

C15_Witness ==
    /\ Ended("stop", "raise")
    /\ Terminated
    /\ workflow.status \in Statuses
    /\ outcome.exc.raisedBy = "stop"

====
